---- MODULE Spec2Model ----
(***************************************************************************)
(* Model of the battery-estimator crate: the quantized curve point         *)
(* (types.rs), the voltage->SOC curve and its interpolation (curve.rs),    *)
(* the fixed-point curve (fixed_point.rs) and the compensation formulas    *)
(* (compensation.rs).                                                      *)
(*                                                                         *)
(* Number representations.                                                 *)
(*  - An f32 argument is a record [kind, n]: kind is "finite", "nan",      *)
(*    "inf" or "neginf"; for a finite voltage n counts 1/VSub millivolt,   *)
(*    for a finite SOC n counts 1/SSub tenth of a percent.  f32 products   *)
(*    and quotients are taken exactly (no rounding to 24 bits); the        *)
(*    float-to-integer casts truncate toward zero and saturate, as `as`    *)
(*    does.                                                                *)
(*  - An f32 SOC result is the exact rational num/den in tenths of a       *)
(*    percent (den > 0).                                                   *)
(*  - A Fixed (I16F16) value is its 32-bit pattern, an integer in          *)
(*    -2^31 .. 2^31-1; its value is bits / 65536.                          *)
(***************************************************************************)
EXTENDS Integers, Sequences, FiniteSets, TLC

VARIABLES
    input,      \* the (voltage, soc) f32 pairs the curves are built from
    curve,      \* Curve built by Curve::new from CurvePoint::new of input
    fcurve,     \* FixedCurve built by FixedCurve::from_f32_slice(input)
    config,     \* the EstimatorConfig of the SocEstimator on curve
    call        \* the last call: [op, arg, result]

vars == <<input, curve, fcurve, config, call>>

\* The last call's operation, argument and result under the names the
\* properties use.
called == call.op
voltage == call.arg
result == call.result
fvoltage == call.arg
fresult == call.result
comp == call

(***************************************************************************)
(* Bounds of the model.                                                    *)
(***************************************************************************)
MaxLen == 3     \* longest short input slice
MaxTail == 3    \* longest tail appended to the 30-point ramp
VSub == 2       \* sub-millivolt resolution of f32 voltages
SSub == 2       \* sub-tenth resolution of f32 SOC values
FSub == 2       \* resolution of f32 compensation arguments below one Fixed bit

(***************************************************************************)
(* Program and language constants.                                         *)
(***************************************************************************)
MAX_CURVE_POINTS == 32
MAX_FIXED_CURVE_POINTS == 32
I32_MAX == 2147483647
U16_MAX == 65535
FRAC == 65536           \* 2^16, one unit of I16F16

I32_MIN == (-I32_MAX) - 1

Abs(x) == IF x < 0 THEN -x ELSE x
Min2(a, b) == IF a < b THEN a ELSE b

\* Integer quotient truncated toward zero (Rust `/` on integers, `as` casts).
TruncDiv(a, b) ==
    IF (a >= 0) = (b > 0) THEN Abs(a) \div Abs(b) ELSE -(Abs(a) \div Abs(b))

\* Nearest integer to a / b (b > 0), ties to even.
RoundDiv(a, b) ==
    LET q == a \div b
        r == a % b
    IN  IF 2 * r < b THEN q
        ELSE IF 2 * r > b THEN q + 1
        ELSE IF q % 2 = 0 THEN q ELSE q + 1

(***************************************************************************)
(* f32 values.                                                             *)
(***************************************************************************)
Finite(n) == [kind |-> "finite", n |-> n]
NaN == [kind |-> "nan", n |-> 0]
Inf == [kind |-> "inf", n |-> 0]
NegInf == [kind |-> "neginf", n |-> 0]

Volts(mv) == Finite(mv * VSub)          \* the f32 voltage of mv millivolts
Percent(tenth) == Finite(tenth * SSub)  \* the f32 SOC of tenth/10 percent

is_finite_const(x) == x.kind = "finite"

\* (x * scale) as u16 for an f32 x >= 0 counted in 1/sub of the target unit.
CastU16(x, sub) ==
    CASE x.kind = "nan" -> 0
      [] x.kind = "inf" -> U16_MAX
      [] x.kind = "neginf" -> 0
      [] OTHER -> IF x.n < 0 THEN 0
                  ELSE Min2(x.n \div sub, U16_MAX)

\* (x * 1000.0) as i32 for an f32 voltage x.
CastI32(x) ==
    CASE x.kind = "nan" -> 0
      [] x.kind = "inf" -> I32_MAX
      [] x.kind = "neginf" -> I32_MIN
      [] OTHER -> TruncDiv(x.n, VSub)

(***************************************************************************)
(* types.rs: CurvePoint                                                    *)
(***************************************************************************)
CurvePoint(mv, tenth) == [voltage_mv |-> mv, soc_tenth |-> tenth]

\* Variant of CurvePointNew without the is_finite_const tests: +infinity is
\* above the upper bound and is clamped to it, NaN passes every comparison.
CurvePointNew_NoFiniteCheck(v, s) ==
    LET safe_voltage ==
            IF (v.kind = "finite" /\ v.n < 0) \/ v.kind = "neginf"
            THEN Finite(0)
            ELSE IF v.kind = "inf" \/ (v.kind = "finite" /\ v.n > U16_MAX * VSub)
            THEN Finite(U16_MAX * VSub)
            ELSE v
        safe_soc ==
            IF (s.kind = "finite" /\ s.n < 0) \/ s.kind = "neginf"
            THEN Finite(0)
            ELSE IF s.kind = "inf" \/ (s.kind = "finite" /\ s.n > 1000 * SSub)
            THEN Finite(1000 * SSub)
            ELSE s
    IN  CurvePoint(CastU16(safe_voltage, VSub), CastU16(safe_soc, SSub))

\* CurvePoint::new
CurvePointNew(v, s) ==
    LET safe_voltage ==
            IF (v.kind = "finite" /\ v.n < 0) \/ v.kind = "neginf"
               \/ ~is_finite_const(v)
            THEN Finite(0)
            ELSE IF v.kind = "finite" /\ v.n > U16_MAX * VSub
            THEN Finite(U16_MAX * VSub)
            ELSE v
        safe_soc ==
            IF (s.kind = "finite" /\ s.n < 0) \/ s.kind = "neginf"
               \/ ~is_finite_const(s)
            THEN Finite(0)
            ELSE IF s.kind = "finite" /\ s.n > 1000 * SSub
            THEN Finite(1000 * SSub)
            ELSE s
    IN  CurvePoint(CastU16(safe_voltage, VSub), CastU16(safe_soc, SSub))

(***************************************************************************)
(* curve.rs: Curve                                                         *)
(***************************************************************************)
Slots == 0 .. (MAX_CURVE_POINTS - 1)

CurveEmpty ==
    [points |-> [i \in Slots |-> CurvePointNew(Finite(0), Finite(0))],
     len |-> 0,
     min_voltage_mv |-> 0,
     max_voltage_mv |-> 0]

\* Variant of CurveNewLoop that stops storing at the capacity but keeps
\* tracking min and max over the whole slice.
RECURSIVE CurveNewLoop_RangeOverAll(_, _, _, _, _)
CurveNewLoop_RangeOverAll(points, i, c, min, max) ==
    IF i < Len(points)
    THEN LET p == points[i + 1]
             min1 == IF i = 0 THEN p.voltage_mv
                     ELSE IF p.voltage_mv < min THEN p.voltage_mv ELSE min
             max1 == IF i = 0 THEN p.voltage_mv
                     ELSE IF p.voltage_mv > max THEN p.voltage_mv ELSE max
         IN  CurveNewLoop_RangeOverAll(points, i + 1,
                 IF i < MAX_CURVE_POINTS THEN [c EXCEPT !.points[i] = p] ELSE c,
                 min1, max1)
    ELSE [c EXCEPT !.len = Min2(i, MAX_CURVE_POINTS),
                   !.min_voltage_mv = IF i > 0 THEN min ELSE @,
                   !.max_voltage_mv = IF i > 0 THEN max ELSE @]

\* The while loop of Curve::new; points is the argument slice (1-based here).
RECURSIVE CurveNewLoop(_, _, _, _, _)
CurveNewLoop(points, i, c, min, max) ==
    IF i < Len(points) /\ i < MAX_CURVE_POINTS
    THEN LET p == points[i + 1]
             min1 == IF i = 0 THEN p.voltage_mv
                     ELSE IF p.voltage_mv < min THEN p.voltage_mv ELSE min
             max1 == IF i = 0 THEN p.voltage_mv
                     ELSE IF p.voltage_mv > max THEN p.voltage_mv ELSE max
         IN  CurveNewLoop(points, i + 1,
                          [c EXCEPT !.points[i] = p], min1, max1)
    ELSE [c EXCEPT !.len = i,
                   !.min_voltage_mv = IF i > 0 THEN min ELSE @,
                   !.max_voltage_mv = IF i > 0 THEN max ELSE @]

CurveNew(points) == CurveNewLoop(points, 0, CurveEmpty, 0, 0)

\* Results: tag is "Ok" or the Error variant; site names the return
\* statement taken; num/den is the SOC in tenths of a percent.
Ok(num, den, site) == [tag |-> "Ok", num |-> num, den |-> den, site |-> site]
Err(e, site) == [tag |-> e, num |-> 0, den |-> 1, site |-> site]
NoResult == [tag |-> "none", num |-> 0, den |-> 1, site |-> "none"]

\* Variant of BoundarySoc whose scan does not stop at the first hit.
BoundarySoc_NoBreak(c, mv) ==
    LET hits == {i \in 0 .. (c.len - 1) : c.points[i].voltage_mv = mv}
    IN  IF hits = {} THEN c.points[0].soc_tenth
        ELSE c.points[CHOOSE i \in hits : \A j \in hits : i >= j].soc_tenth

\* The `for i in 0..len { if points[i].voltage_mv == mv { ..; break } }`
\* scans of the boundary branches, started from points[0].soc().
BoundarySoc(c, mv) ==
    LET hits == {i \in 0 .. (c.len - 1) : c.points[i].voltage_mv = mv}
    IN  IF hits = {} THEN c.points[0].soc_tenth
        ELSE c.points[CHOOSE i \in hits : \A j \in hits : i <= j].soc_tenth

\* Variant of SegmentHit with the two ends of the segment exchanged.
SegmentHit_Swapped(prev, curr, voltage_mv) ==
    voltage_mv >= curr.voltage_mv /\ voltage_mv <= prev.voltage_mv

\* Variant of SegmentHit with strict comparisons.
SegmentHit_Strict(prev, curr, voltage_mv) ==
    voltage_mv > prev.voltage_mv /\ voltage_mv < curr.voltage_mv

\* Variant of SegmentHit that accepts a segment stored in either order.
SegmentHit_EitherOrder(prev, curr, voltage_mv) ==
    \/ voltage_mv >= prev.voltage_mv /\ voltage_mv <= curr.voltage_mv
    \/ voltage_mv >= curr.voltage_mv /\ voltage_mv <= prev.voltage_mv

\* The bracketing test of the segment search.
SegmentHit(prev, curr, voltage_mv) ==
    voltage_mv >= prev.voltage_mv /\ voltage_mv <= curr.voltage_mv

\* Variant of Interpolate whose ratio is measured from curr.
Interpolate_RatioFromCurr(prev, curr, voltage_mv) ==
    LET range == curr.voltage_mv - prev.voltage_mv
    IN  IF range = 0 THEN Err("NumericalError", "zero_span")
        ELSE Ok(prev.soc_tenth * range
                + (voltage_mv - curr.voltage_mv)
                  * (curr.soc_tenth - prev.soc_tenth),
                range, "segment")

\* Variant of Interpolate whose ratio is an integer quotient.
Interpolate_IntRatio(prev, curr, voltage_mv) ==
    LET range == curr.voltage_mv - prev.voltage_mv
    IN  IF range = 0 THEN Err("NumericalError", "zero_span")
        ELSE Ok(prev.soc_tenth
                + TruncDiv(voltage_mv - prev.voltage_mv, range)
                  * (curr.soc_tenth - prev.soc_tenth),
                1, "segment")

\* Variant of Interpolate that runs from curr.soc to prev.soc.
Interpolate_SwappedSoc(prev, curr, voltage_mv) ==
    LET range == curr.voltage_mv - prev.voltage_mv
    IN  IF range = 0 THEN Err("NumericalError", "zero_span")
        ELSE Ok(curr.soc_tenth * range
                + (voltage_mv - prev.voltage_mv)
                  * (prev.soc_tenth - curr.soc_tenth),
                range, "segment")

\* Variant of Interpolate without the zero-range test: the f32 division by
\* 0.0 yields a non-finite ratio and a non-finite SOC.
Interpolate_NoZeroCheck(prev, curr, voltage_mv) ==
    LET range == curr.voltage_mv - prev.voltage_mv
    IN  IF range = 0
        THEN [tag |-> "Ok", num |-> 0, den |-> 0, site |-> "segment"]
        ELSE Ok(prev.soc_tenth * range
                + (voltage_mv - prev.voltage_mv)
                  * (curr.soc_tenth - prev.soc_tenth),
                range, "segment")

\* The body of the bracketing branch: range test, ratio, interpolation.
\* soc = prev.soc() + ratio * (curr.soc() - prev.soc()), in tenths num/den.
Interpolate(prev, curr, voltage_mv) ==
    LET range == curr.voltage_mv - prev.voltage_mv
    IN  IF range = 0 THEN Err("NumericalError", "zero_span")
        ELSE Ok(prev.soc_tenth * range
                + (voltage_mv - prev.voltage_mv)
                  * (curr.soc_tenth - prev.soc_tenth),
                range, "segment")

\* The linear segment search of voltage_to_soc: the first i in 1..len whose
\* segment brackets voltage_mv decides; none falls through to the last Err.
SegmentSearch(c, voltage_mv) ==
    LET hits == {i \in 1 .. (c.len - 1) :
                    SegmentHit(c.points[i - 1], c.points[i], voltage_mv)}
    IN  IF hits = {} THEN Err("NumericalError", "no_segment")
        ELSE LET i == CHOOSE k \in hits : \A j \in hits : k <= j
             IN  Interpolate(c.points[i - 1], c.points[i], voltage_mv)

\* Variant of CurveVoltageToSoc whose boundary branches return the fixed
\* values 0 % and 100 % instead of scanning for the extreme point.
CurveVoltageToSoc_ZeroHundred(c, v) ==
    IF c.len < 2 THEN Err("InvalidCurve", "invalid")
    ELSE LET voltage_mv == CastI32(v)
         IN  IF voltage_mv >= c.max_voltage_mv THEN Ok(1000, 1, "max")
             ELSE IF voltage_mv <= c.min_voltage_mv THEN Ok(0, 1, "min")
             ELSE SegmentSearch(c, voltage_mv)

\* Variant of CurveVoltageToSoc that accepts a single-point curve.
CurveVoltageToSoc_LenLt1(c, v) ==
    IF c.len < 1 THEN Err("InvalidCurve", "invalid")
    ELSE LET voltage_mv == CastI32(v)
         IN  IF voltage_mv >= c.max_voltage_mv
             THEN Ok(BoundarySoc(c, c.max_voltage_mv), 1, "max")
             ELSE IF voltage_mv <= c.min_voltage_mv
             THEN Ok(BoundarySoc(c, c.min_voltage_mv), 1, "min")
             ELSE SegmentSearch(c, voltage_mv)

\* Variant of CurveVoltageToSoc that searches the segments before it tests
\* the boundaries.
CurveVoltageToSoc_SearchFirst(c, v) ==
    IF c.len < 2 THEN Err("InvalidCurve", "invalid")
    ELSE LET voltage_mv == CastI32(v)
             found == SegmentSearch(c, voltage_mv)
         IN  IF found.site # "no_segment" THEN found
             ELSE IF voltage_mv >= c.max_voltage_mv
             THEN Ok(BoundarySoc(c, c.max_voltage_mv), 1, "max")
             ELSE IF voltage_mv <= c.min_voltage_mv
             THEN Ok(BoundarySoc(c, c.min_voltage_mv), 1, "min")
             ELSE found

\* Curve::voltage_to_soc(&self, voltage: f32) -> Result<f32, Error>
CurveVoltageToSoc(c, v) ==
    IF c.len < 2 THEN Err("InvalidCurve", "invalid")
    ELSE LET voltage_mv == CastI32(v)
         IN  IF voltage_mv >= c.max_voltage_mv
             THEN Ok(BoundarySoc(c, c.max_voltage_mv), 1, "max")
             ELSE IF voltage_mv <= c.min_voltage_mv
             THEN Ok(BoundarySoc(c, c.min_voltage_mv), 1, "min")
             ELSE SegmentSearch(c, voltage_mv)

\* (min_voltage_mv as f32 / 1000.0, max_voltage_mv as f32 / 1000.0)
voltage_range(c) == <<Volts(c.min_voltage_mv), Volts(c.max_voltage_mv)>>

(***************************************************************************)
(* Fixed = I16F16 of the `fixed` crate, on 32-bit patterns.  Products and  *)
(* quotients are formed in 64 bits by the crate; here they are assembled   *)
(* from 16-bit halves so that no intermediate value leaves 32 bits.        *)
(***************************************************************************)
HALF == 32768           \* 2^15: Fixed values lie in -HALF .. HALF - 1/FRAC
FIXED_ONE == 65536      \* Fixed::ONE
FIXED_ZERO == 0         \* Fixed::ZERO

\* Fixed::from_num of an integer.
FixedFromInt(k) == k * FRAC

\* Fixed::from_num of the float num/den (den > 0): nearest, ties to even.
FixedFromRatio(num, den) == RoundDiv(num * FRAC, den)

\* Fixed::from_num of a finite f32 voltage / SOC.
FixedFromVolts(x) == FixedFromRatio(x.n, 1000 * VSub)
FixedFromPercent(x) == FixedFromRatio(x.n, 10 * SSub)

\* The 16-bit halves of a pattern: a = Hi(a) * 2^16 + Lo(a), 0 <= Lo(a) < 2^16.
Hi(a) == a \div FRAC
Lo(a) == a % FRAC

\* Two's-complement wrap of the high half of a result to 16 bits.
WrapHigh(q) == ((q + HALF) % (2 * HALF)) - HALF

\* a + b and a - b: overflow flag and wrapped pattern.
AddHigh(a, b) == Hi(a) + Hi(b) + Hi(Lo(a) + Lo(b))
AddOverflows(a, b) == AddHigh(a, b) < -HALF \/ AddHigh(a, b) >= HALF
FixedAdd(a, b) == WrapHigh(AddHigh(a, b)) * FRAC + Lo(Lo(a) + Lo(b))

SubHigh(a, b) == Hi(a) - Hi(b) + Hi(Lo(a) - Lo(b))
SubOverflows(a, b) == SubHigh(a, b) < -HALF \/ SubHigh(a, b) >= HALF
FixedSub(a, b) == WrapHigh(SubHigh(a, b)) * FRAC + Lo(Lo(a) - Lo(b))

\* floor(al * bl / 2^16) for 0 <= al, bl < 2^16.
LowProductHigh(al, bl) ==
    (((al \div 256) * bl) + (((al % 256) * bl) \div 256)) \div 256

\* floor(a * b / 2^16) = MulHigh * 2^16 + MulLow.
MulLowSum(a, b) ==
    Lo(Hi(a) * Lo(b)) + Lo(Lo(a) * Hi(b)) + LowProductHigh(Lo(a), Lo(b))
MulHigh(a, b) ==
    (Hi(a) * Hi(b)) + Hi(Hi(a) * Lo(b)) + Hi(Lo(a) * Hi(b))
        + Hi(MulLowSum(a, b))
MulLow(a, b) == Lo(MulLowSum(a, b))

\* a * b: the 64-bit product shifted right by 16 (rounds toward -infinity).
MulOverflows(a, b) == MulHigh(a, b) < -HALF \/ MulHigh(a, b) >= HALF
FixedMul(a, b) == WrapHigh(MulHigh(a, b)) * FRAC + MulLow(a, b)

\* Sixteen steps of binary long division: floor(n * 2^k / d) given
\* q = floor(n / d) and r = n mod d.
RECURSIVE LongDiv(_, _, _, _)
LongDiv(q, r, d, k) ==
    IF k = 0 THEN q
    ELSE IF 2 * r >= d THEN LongDiv(2 * q + 1, 2 * r - d, d, k - 1)
    ELSE LongDiv(2 * q, 2 * r, d, k - 1)

\* a / b: (a << 16) / b in 64 bits, truncated toward zero; b # 0.
DivOverflows(a, b) == Abs(a) \div Abs(b) >= HALF
FixedDiv(a, b) ==
    LET q == LongDiv(Abs(a) \div Abs(b), Abs(a) % Abs(b), Abs(b), 16)
    IN  IF (a >= 0) = (b > 0) THEN q ELSE -q

(***************************************************************************)
(* fixed_point.rs: FixedCurvePoint, FixedCurve                             *)
(***************************************************************************)
FixedCurvePoint(v, s) == [voltage |-> v, soc |-> s]

FixedCurvePointFromF32(v, s) ==
    FixedCurvePoint(FixedFromVolts(v), FixedFromPercent(s))

FixedSlots == 0 .. (MAX_FIXED_CURVE_POINTS - 1)

FixedCurveEmpty ==
    [points |-> [i \in FixedSlots |-> FixedCurvePoint(FIXED_ZERO, FIXED_ZERO)],
     len |-> 0,
     min_voltage |-> FIXED_ZERO, max_voltage |-> FIXED_ZERO,
     min_soc |-> FIXED_ZERO, max_soc |-> FIXED_ZERO]

\* The for loop of FixedCurve::new over points.iter().take(len), with its
\* locals min_v, max_v, min_s, max_s, and the assignments that follow it.
RECURSIVE FixedCurveNewLoop(_, _, _, _, _, _, _, _)
FixedCurveNewLoop(points, len, i, c, min_v, max_v, min_s, max_s) ==
    IF i < len
    THEN LET point == points[i + 1]
             lower == point.voltage < min_v
             min_v1 == IF lower THEN point.voltage ELSE min_v
             min_s1 == IF lower THEN point.soc ELSE min_s
             higher == point.voltage > max_v
             max_v1 == IF higher THEN point.voltage ELSE max_v
             max_s1 == IF higher THEN point.soc ELSE max_s
         IN  FixedCurveNewLoop(points, len, i + 1,
                               [c EXCEPT !.points[i] = point],
                               min_v1, max_v1, min_s1, max_s1)
    ELSE [c EXCEPT !.len = len,
                   !.min_voltage = min_v, !.max_voltage = max_v,
                   !.min_soc = min_s, !.max_soc = max_s]

FixedCurveNew(points) ==
    LET len == Min2(Len(points), MAX_FIXED_CURVE_POINTS)
    IN  IF len = 0 THEN FixedCurveEmpty
        ELSE FixedCurveNewLoop(points, len, 0, FixedCurveEmpty,
                               points[1].voltage, points[1].voltage,
                               points[1].soc, points[1].soc)

FixedCurveFromF32Slice(points) ==
    LET len == Min2(Len(points), MAX_FIXED_CURVE_POINTS)
    IN  FixedCurveNew([i \in 1 .. len |->
                          FixedCurvePointFromF32(points[i][1], points[i][2])])

\* Results of the fixed lookup: bits is the SOC pattern; idx is the index the
\* partition-point search selected (0 where no search ran).
FixedOk(bits, site, idx) ==
    [tag |-> "Ok", bits |-> bits, site |-> site, idx |-> idx]
FixedErr(e, site, idx) == [tag |-> e, bits |-> 0, site |-> site, idx |-> idx]
NoFixedResult == [tag |-> "none", bits |-> 0, site |-> "none", idx |-> 0]

\* slice::partition_point(|p| p.voltage <= voltage) on points[..len]: the
\* binary search of the standard library; on a slice the predicate
\* partitions it returns the number of leading elements that satisfy it.
RECURSIVE PartitionLoop(_, _, _, _)
PartitionLoop(c, v, left, right) ==
    IF left < right
    THEN LET mid == left + ((right - left) \div 2)
         IN  IF c.points[mid].voltage <= v
             THEN PartitionLoop(c, v, mid + 1, right)
             ELSE PartitionLoop(c, v, left, mid)
    ELSE left

PartitionPoint(c, v) == PartitionLoop(c, v, 0, c.len)

\* Variant of FixedCurveVoltageToSoc that returns the SOC of the lower end of
\* the segment instead of interpolating.
FixedCurveVoltageToSoc_PrevSoc(c, v) ==
    IF c.len < 2 THEN FixedErr("InvalidCurve", "invalid", 0)
    ELSE IF v >= c.max_voltage THEN FixedOk(c.max_soc, "max", 0)
    ELSE IF v <= c.min_voltage THEN FixedOk(c.min_soc, "min", 0)
    ELSE LET idx == PartitionPoint(c, v)
         IN  IF idx > 0 /\ idx < c.len
                /\ v >= c.points[idx - 1].voltage
                /\ v <= c.points[idx].voltage
             THEN LET prev == c.points[idx - 1]
                      curr == c.points[idx]
                      vrange == FixedSub(curr.voltage, prev.voltage)
                      soc_range == FixedSub(curr.soc, prev.soc)
                  IN  IF vrange = 0
                      THEN FixedErr("Panic", "divide_by_zero", idx)
                      ELSE FixedOk(prev.soc, "segment", idx)
             ELSE FixedErr("NumericalError", "no_segment", idx)

\* FixedCurve::voltage_to_soc
FixedCurveVoltageToSoc(c, v) ==
    IF c.len < 2 THEN FixedErr("InvalidCurve", "invalid", 0)
    ELSE IF v >= c.max_voltage THEN FixedOk(c.max_soc, "max", 0)
    ELSE IF v <= c.min_voltage THEN FixedOk(c.min_soc, "min", 0)
    ELSE LET idx == PartitionPoint(c, v)
         IN  IF idx > 0 /\ idx < c.len
                /\ v >= c.points[idx - 1].voltage
                /\ v <= c.points[idx].voltage
             THEN LET prev == c.points[idx - 1]
                      curr == c.points[idx]
                      vrange == FixedSub(curr.voltage, prev.voltage)
                      soc_range == FixedSub(curr.soc, prev.soc)
                  IN  IF vrange = 0
                      THEN FixedErr("Panic", "divide_by_zero", idx)
                      ELSE FixedOk(
                              FixedAdd(prev.soc,
                                  FixedMul(FixedDiv(FixedSub(v, prev.voltage),
                                                    vrange),
                                           soc_range)),
                              "segment", idx)
             ELSE FixedErr("NumericalError", "no_segment", idx)

(***************************************************************************)
(* compensation.rs                                                         *)
(***************************************************************************)
\* Fixed::from_num of the literals of the compensation code.
WARM_CAP == FixedFromRatio(5, 100)          \* Fixed::from_num(0.05)
COLD_LIMIT == FixedFromRatio(-30, 100)      \* Fixed::from_num(-0.30)
FIXED_TWO == FixedFromInt(2)                \* Fixed::from_num(2)

\* Result of a compensation call: value is the returned pattern, change the
\* bounded relative change applied, overflow whether some +, - or * of the
\* call left the I16F16 range (a panic with overflow checks on, the wrapped
\* pattern without them).
CompResult(value, change, overflow) ==
    [value |-> value, change |-> change, overflow |-> overflow]

compensate_temperature_fixed(soc, temperature, nominal_temp, coefficient) ==
    LET delta_temp == FixedSub(temperature, nominal_temp)
        product == FixedMul(delta_temp, coefficient)
        capacity_change ==
            IF delta_temp < FIXED_ZERO THEN product
            ELSE LET change == FixedDiv(product, FIXED_TWO)
                 IN  IF change > WARM_CAP THEN WARM_CAP ELSE change
        bounded_change ==
            IF capacity_change < COLD_LIMIT THEN COLD_LIMIT
            ELSE capacity_change
        factor == FixedAdd(FIXED_ONE, bounded_change)
    IN  CompResult(FixedMul(soc, factor), bounded_change,
                   \/ SubOverflows(temperature, nominal_temp)
                   \/ MulOverflows(delta_temp, coefficient)
                   \/ AddOverflows(FIXED_ONE, bounded_change)
                   \/ MulOverflows(soc, factor))

\* Variant of compensate_aging_fixed that ignores the sign of its arguments.
compensate_aging_fixed_NoSignCheck(soc, age_years, aging_factor) ==
    LET age_compensation == FixedMul(age_years, aging_factor)
        clamped == IF age_compensation > HALF THEN HALF ELSE age_compensation
        factor == FixedSub(FIXED_ONE, clamped)
    IN  CompResult(FixedMul(soc, factor), clamped,
                   \/ MulOverflows(age_years, aging_factor)
                   \/ SubOverflows(FIXED_ONE, clamped)
                   \/ MulOverflows(soc, factor))

MAX_AGING == FixedFromRatio(5, 10)          \* Fixed::from_num(0.5)

compensate_aging_fixed(soc, age_years, aging_factor) ==
    IF age_years < FIXED_ZERO THEN CompResult(soc, FIXED_ZERO, FALSE)
    ELSE IF aging_factor < FIXED_ZERO THEN CompResult(soc, FIXED_ZERO, FALSE)
    ELSE LET age_compensation == FixedMul(age_years, aging_factor)
             clamped == IF age_compensation > MAX_AGING THEN MAX_AGING
                        ELSE age_compensation
             factor == FixedSub(FIXED_ONE, clamped)
         IN  CompResult(FixedMul(soc, factor), clamped,
                        \/ MulOverflows(age_years, aging_factor)
                        \/ SubOverflows(FIXED_ONE, clamped)
                        \/ MulOverflows(soc, factor))

NOMINAL_TEMP == FixedFromInt(25)            \* Fixed::from_bits(25 << 16)
COEFFICIENT == 328                          \* Fixed::from_bits(328)

default_temperature_compensation_fixed(soc, temperature) ==
    compensate_temperature_fixed(soc, temperature, NOMINAL_TEMP, COEFFICIENT)

(***************************************************************************)
(* f32 arguments and results of the float API.  A finite value inside the  *)
(* 16.16 range is n / (FRAC * sub): OnGrid values are Fixed patterns,      *)
(* OffGrid values lie strictly between two patterns.  Big(k) is the whole  *)
(* number k with |k| >= 32768, finite but outside the 16.16 range.         *)
(***************************************************************************)
OnGrid(bits) == [kind |-> "finite", n |-> bits, sub |-> 1]
OffGrid(k) == [kind |-> "finite", n |-> k, sub |-> FSub]
Big(k) == [kind |-> "big", n |-> k, sub |-> 1]

\* f32::is_finite
is_finite(x) == x.kind \in {"finite", "big"}

\* x < 0.0
IsNegative(x) ==
    CASE x.kind \in {"finite", "big"} -> x.n < 0
      [] x.kind = "neginf" -> TRUE
      [] OTHER -> FALSE

\* Fixed::from_num of an f32: nearest pattern, ties to even.  A value that
\* does not fit panics when overflow is checked and wraps otherwise; a
\* non-finite value panics in every build.
Converted(bits, fault) == [bits |-> bits, fault |-> fault]

FromNum(x) ==
    CASE x.kind = "finite" -> Converted(RoundDiv(x.n, x.sub), "none")
      [] x.kind = "big" -> Converted(WrapHigh(x.n) * FRAC, "overflow")
      [] OTHER -> Converted(0, "nonfinite")

\* The power of two u with a / u < 2^24 <= 2 * a / u (u = 1 for a < 2^24).
MANTISSA == 16777216                        \* 2^24: f32 significand
RECURSIVE MantissaUnit(_, _)
MantissaUnit(a, u) ==
    IF a \div u < MANTISSA THEN u ELSE MantissaUnit(a, 2 * u)

\* Fixed::to_num::<f32>: the pattern rounded to 24 significant bits.
ToF32(bits) ==
    IF bits = I32_MIN THEN OnGrid(bits)
    ELSE LET u == MantissaUnit(Abs(bits), 1)
             q == RoundDiv(bits, u)
         IN  IF q \div (FRAC \div u) >= HALF THEN Big(HALF) ELSE OnGrid(q * u)

\* Result of a float compensation call: the f32 returned, and whether a
\* conversion or a Fixed operation of the call overflowed.
FloatResult(value, overflow) == [value |-> value, overflow |-> overflow]

\* Variant of compensate_temperature that validates every argument but soc.
compensate_temperature_SocUnchecked(soc, temperature, nominal_temp, coefficient) ==
    IF \/ ~is_finite(temperature)
       \/ ~is_finite(nominal_temp)
       \/ ~is_finite(coefficient)
    THEN FloatResult(soc, FALSE)
    ELSE LET soc_fixed == FromNum(soc)
             temp_fixed == FromNum(temperature)
             nominal_fixed == FromNum(nominal_temp)
             coeff_fixed == FromNum(coefficient)
             r == compensate_temperature_fixed(soc_fixed.bits, temp_fixed.bits,
                      nominal_fixed.bits, coeff_fixed.bits)
         IN  FloatResult(ToF32(r.value),
                 \/ soc_fixed.fault # "none" \/ temp_fixed.fault # "none"
                 \/ nominal_fixed.fault # "none" \/ coeff_fixed.fault # "none"
                 \/ r.overflow)

compensate_temperature(soc, temperature, nominal_temp, coefficient) ==
    IF \/ ~is_finite(soc)
       \/ ~is_finite(temperature)
       \/ ~is_finite(nominal_temp)
       \/ ~is_finite(coefficient)
    THEN FloatResult(soc, FALSE)
    ELSE LET soc_fixed == FromNum(soc)
             temp_fixed == FromNum(temperature)
             nominal_fixed == FromNum(nominal_temp)
             coeff_fixed == FromNum(coefficient)
             r == compensate_temperature_fixed(soc_fixed.bits, temp_fixed.bits,
                      nominal_fixed.bits, coeff_fixed.bits)
         IN  FloatResult(ToF32(r.value),
                 \/ soc_fixed.fault # "none" \/ temp_fixed.fault # "none"
                 \/ nominal_fixed.fault # "none" \/ coeff_fixed.fault # "none"
                 \/ r.overflow)

compensate_aging(soc, age_years, aging_factor) ==
    IF ~is_finite(soc) \/ ~is_finite(age_years) \/ ~is_finite(aging_factor)
    THEN FloatResult(soc, FALSE)
    ELSE IF IsNegative(age_years) THEN FloatResult(soc, FALSE)
    ELSE IF IsNegative(aging_factor) THEN FloatResult(soc, FALSE)
    ELSE LET soc_fixed == FromNum(soc)
             age_fixed == FromNum(age_years)
             factor_fixed == FromNum(aging_factor)
             r == compensate_aging_fixed(soc_fixed.bits, age_fixed.bits,
                                         factor_fixed.bits)
         IN  FloatResult(ToF32(r.value),
                 \/ soc_fixed.fault # "none" \/ age_fixed.fault # "none"
                 \/ factor_fixed.fault # "none" \/ r.overflow)

(***************************************************************************)
(* estimator.rs                                                            *)
(***************************************************************************)
DEFAULT_COEFFICIENT_BITS == 328             \* Fixed::from_bits(328)
DEFAULT_AGING_FACTOR_BITS == 1311           \* Fixed::from_bits(1311)
FLAG_TEMPERATURE == 1                       \* 0x01
FLAG_AGING == 2                             \* 0x02

\* EstimatorConfig::default
EstimatorConfigDefault ==
    [nominal_temperature |-> FixedFromInt(25),
     temperature_coefficient |-> DEFAULT_COEFFICIENT_BITS,
     age_years |-> FIXED_ZERO,
     aging_factor |-> DEFAULT_AGING_FACTOR_BITS,
     flags |-> 0]

\* flags & bit != 0 and flags | bit, for a one-bit mask.
HasFlag(flags, bit) == (flags \div bit) % 2 # 0
SetFlag(flags, bit) == IF HasFlag(flags, bit) THEN flags ELSE flags + bit

\* Variant of with_aging_compensation that stores the aging bit as the whole
\* flag byte.
with_aging_compensation_Only(cfg) == [cfg EXCEPT !.flags = FLAG_AGING]

with_temperature_compensation(cfg) ==
    [cfg EXCEPT !.flags = SetFlag(@, FLAG_TEMPERATURE)]
with_aging_compensation(cfg) == [cfg EXCEPT !.flags = SetFlag(@, FLAG_AGING)]
with_nominal_temperature(cfg, temp) == [cfg EXCEPT !.nominal_temperature = temp]
with_temperature_coefficient(cfg, coeff) ==
    [cfg EXCEPT !.temperature_coefficient = coeff]
with_age_years(cfg, years) == [cfg EXCEPT !.age_years = years]
with_aging_factor(cfg, factor) == [cfg EXCEPT !.aging_factor = factor]
is_temperature_compensation_enabled(cfg) == HasFlag(cfg.flags, FLAG_TEMPERATURE)
is_aging_compensation_enabled(cfg) == HasFlag(cfg.flags, FLAG_AGING)

\* Result of an estimator call.  fault tells how the call can abort:
\* "none" (it returns), "overflow" (a conversion or Fixed operation left the
\* 16.16 range: a panic when overflow is checked, the wrapped value
\* otherwise) or "nonfinite" (Fixed::from_num of NaN or an infinity: a panic
\* in every build).
EstResult(tag, value, fault) == [tag |-> tag, value |-> value, fault |-> fault]

\* The worse of the faults of the steps of one call.
Faults(fs) ==
    IF "nonfinite" \in fs THEN "nonfinite"
    ELSE IF "overflow" \in fs THEN "overflow"
    ELSE "none"
OverflowFault(b) == IF b THEN "overflow" ELSE "none"

\* Fixed::clamp(lo, hi)
FixedClamp(x, lo, hi) == IF x < lo THEN lo ELSE IF x > hi THEN hi ELSE x
SOC_MAX == FixedFromInt(100)                \* Fixed::from_num(100)

\* The remainder left by k steps of the long division of LongDiv.
RECURSIVE LongRem(_, _, _)
LongRem(r, d, k) ==
    IF k = 0 THEN r
    ELSE IF 2 * r >= d THEN LongRem(2 * r - d, d, k - 1)
    ELSE LongRem(2 * r, d, k - 1)

\* Fixed::from_num of the f32 SOC num/den tenths of a percent (0 <= num,
\* den > 0): nearest pattern, ties to even.
FixedFromSoc(num, den) ==
    LET d == 10 * den
        q17 == LongDiv(num \div d, num % d, d, 17)
        exact == LongRem(num % d, d, 17) = 0
        q == q17 \div 2
    IN  IF q17 % 2 = 0 THEN q
        ELSE IF ~exact THEN q + 1
        ELSE IF q % 2 = 0 THEN q ELSE q + 1

\* Fixed::from_num of an f32 voltage: values of 32768 V and more do not fit.
FixedFromVoltage(x) ==
    CASE x.kind # "finite" -> Converted(0, "nonfinite")
      [] Abs(x.n) \div (1000 * VSub) >= HALF ->
            Converted(WrapHigh(TruncDiv(x.n, 1000 * VSub)) * FRAC, "overflow")
      [] OTHER -> Converted(FixedFromVolts(x), "none")

\* Curve::voltage_to_soc_fixed is called by the estimator but is not part of
\* the sources at hand.  It is modelled on the specification: the control
\* flow and the boundary and error behaviour of Curve::voltage_to_soc, with
\* the comparisons on whole millivolts and the result as a Fixed.
FixedToMillivolts(v) == Hi(v) * 1000 + ((Lo(v) * 1000) \div FRAC)

CurveVoltageToSocFixed(c, v) ==
    LET r == CurveVoltageToSoc(c, Volts(FixedToMillivolts(v)))
    IN  IF r.tag = "Ok" THEN EstResult("Ok", FixedFromSoc(r.num, r.den), "none")
        ELSE EstResult(r.tag, 0, "none")

\* SocEstimator::estimate_soc_fixed
estimate_soc_fixed(c, v) == CurveVoltageToSocFixed(c, v)

\* SocEstimator::estimate_soc
estimate_soc(c, v) ==
    LET r == CurveVoltageToSoc(c, v)
    IN  EstResult(r.tag, r, "none")

\* Variant of estimate_soc_with_temp_fixed that compensates with the
\* estimator's configured nominal temperature and coefficient.
estimate_soc_with_temp_fixed_Configured(c, v, temperature) ==
    LET base == CurveVoltageToSocFixed(c, v)
        compensated ==
            compensate_temperature_fixed(base.value, temperature,
                config.nominal_temperature, config.temperature_coefficient)
    IN  IF base.tag # "Ok" THEN base
        ELSE EstResult("Ok", FixedClamp(compensated.value, FIXED_ZERO, SOC_MAX),
                       OverflowFault(compensated.overflow))

\* SocEstimator::estimate_soc_with_temp_fixed
estimate_soc_with_temp_fixed(c, v, temperature) ==
    LET base == CurveVoltageToSocFixed(c, v)
        compensated ==
            default_temperature_compensation_fixed(base.value, temperature)
    IN  IF base.tag # "Ok" THEN base
        ELSE EstResult("Ok", FixedClamp(compensated.value, FIXED_ZERO, SOC_MAX),
                       OverflowFault(compensated.overflow))

\* SocEstimator::estimate_soc_with_temp
estimate_soc_with_temp(c, v, temperature) ==
    LET base == CurveVoltageToSoc(c, v)
        temp_fixed == FromNum(temperature)
        compensated ==
            default_temperature_compensation_fixed(
                FixedFromSoc(base.num, base.den), temp_fixed.bits)
    IN  IF base.tag # "Ok" THEN EstResult(base.tag, 0, "none")
        ELSE EstResult("Ok",
                 ToF32(FixedClamp(compensated.value, FIXED_ZERO, SOC_MAX)),
                 Faults({temp_fixed.fault, OverflowFault(compensated.overflow)}))

\* Variant of estimate_soc_compensated_fixed that applies the aging
\* compensation first and the temperature compensation to its result.
estimate_soc_compensated_fixed_AgingFirst(c, cfg, v, temperature) ==
    LET base == CurveVoltageToSocFixed(c, v)
        a == IF is_aging_compensation_enabled(cfg)
             THEN compensate_aging_fixed(base.value, cfg.age_years,
                                         cfg.aging_factor)
             ELSE CompResult(base.value, FIXED_ZERO, FALSE)
        t == IF is_temperature_compensation_enabled(cfg)
             THEN compensate_temperature_fixed(a.value, temperature,
                      cfg.nominal_temperature, cfg.temperature_coefficient)
             ELSE CompResult(a.value, FIXED_ZERO, FALSE)
    IN  IF base.tag # "Ok" THEN base
        ELSE EstResult("Ok", FixedClamp(t.value, FIXED_ZERO, SOC_MAX),
                       OverflowFault(t.overflow \/ a.overflow))

\* SocEstimator::estimate_soc_compensated_fixed
estimate_soc_compensated_fixed(c, cfg, v, temperature) ==
    LET base == CurveVoltageToSocFixed(c, v)
        t == IF is_temperature_compensation_enabled(cfg)
             THEN compensate_temperature_fixed(base.value, temperature,
                      cfg.nominal_temperature, cfg.temperature_coefficient)
             ELSE CompResult(base.value, FIXED_ZERO, FALSE)
        a == IF is_aging_compensation_enabled(cfg)
             THEN compensate_aging_fixed(t.value, cfg.age_years,
                                         cfg.aging_factor)
             ELSE CompResult(t.value, FIXED_ZERO, FALSE)
    IN  IF base.tag # "Ok" THEN base
        ELSE EstResult("Ok", FixedClamp(a.value, FIXED_ZERO, SOC_MAX),
                       OverflowFault(t.overflow \/ a.overflow))

\* SocEstimator::estimate_soc_compensated: both arguments are converted
\* before the lookup is tried.
estimate_soc_compensated(c, cfg, v, temperature) ==
    LET v_fixed == FixedFromVoltage(v)
        temp_fixed == FromNum(temperature)
        r == estimate_soc_compensated_fixed(c, cfg, v_fixed.bits,
                                            temp_fixed.bits)
        fault == Faults({v_fixed.fault, temp_fixed.fault, r.fault})
    IN  IF r.tag # "Ok" THEN EstResult(r.tag, 0, fault)
        ELSE EstResult("Ok", ToF32(r.value), fault)

(***************************************************************************)
(* Inputs: the slices the curves are built from and the lookup voltages.   *)
(***************************************************************************)
PointVolts == {Volts(1), Volts(2), Volts(4)}
PointSocs == {Percent(3), Percent(10)}
Points == {<<v, s>> : v \in PointVolts, s \in PointSocs}

SeqsUpTo(S, n) == UNION {[1 .. k -> S] : k \in 0 .. n}

\* Every slice of at most MaxLen points, in any order.
ShortInputs == SeqsUpTo(Points, MaxLen)

\* Slices of MaxLen + 1 points with rising SOC and voltages in any order.
RampInputs ==
    {[i \in 1 .. (MaxLen + 1) |-> <<vs[i], Percent(2 * i)>>] :
        vs \in [1 .. (MaxLen + 1) -> PointVolts]}

\* The curves of the documented examples.
TwoPointExample == <<<<Volts(3000), Percent(0)>>, <<Volts(4000), Percent(1000)>>>>
LiPoExample ==
    <<<<Volts(3200), Percent(0)>>, <<Volts(3700), Percent(500)>>,
      <<Volts(4200), Percent(1000)>>>>
ExampleInputs == {TwoPointExample, LiPoExample}

\* Slices around the capacity: a rising run of MAX_CURVE_POINTS - 2 points
\* followed by up to MaxTail further points.
LongHead ==
    [i \in 1 .. (MAX_CURVE_POINTS - 2) |-> <<Volts(10 + i), Percent(10 * i)>>]
TailPoints ==
    {<<Volts(3), Percent(7)>>, <<Volts(25), Percent(5)>>, <<Volts(99), Percent(3)>>}
LongInputs == {LongHead \o t : t \in SeqsUpTo(TailPoints, MaxTail)}

Inputs == ShortInputs \cup RampInputs \cup ExampleInputs \cup LongInputs

ToCurvePoints(in) == [i \in 1 .. Len(in) |-> CurvePointNew(in[i][1], in[i][2])]

Specials == {NaN, Inf, NegInf}
SmallVolts ==
    {Volts(m) : m \in (-1) .. 5} \cup {Finite(m * VSub + 1) : m \in {-1, 1, 3}}
ExampleVolts ==
    {Volts(3100), Volts(3250), Volts(3450), Volts(3500), Volts(3700),
     Volts(4300)}
LongVolts ==
    {Volts(2), Volts(3), Volts(11), Volts(25), Volts(40), Volts(41),
     Volts(99), Volts(120), Finite(30 * VSub + 1)}

\* The lookup voltages tried on a curve built from the slice in.
LookupVolts(in) ==
    Specials \cup
        (IF in \in ExampleInputs THEN ExampleVolts
         ELSE IF Len(in) > MaxLen + 1 THEN LongVolts
         ELSE SmallVolts)

Call(op, arg, res) == [op |-> op, arg |-> arg, result |-> res]

Init ==
    /\ input \in Inputs
    /\ curve = CurveNew(ToCurvePoints(input))
    /\ fcurve = FixedCurveFromF32Slice(input)
    /\ config = EstimatorConfigDefault
    /\ call = Call("new", input, NoResult)

\* Curve::voltage_to_soc(&self, voltage: f32)
VoltageToSoc(v) ==
    /\ call' = Call("voltage_to_soc", v, CurveVoltageToSoc(curve, v))
    /\ UNCHANGED <<input, curve, fcurve, config>>

\* The Fixed lookup voltages tried on a curve built from the slice in: the
\* finite lookup voltages converted by Fixed::from_num, two patterns next to
\* a sample voltage, and the extreme patterns.
FixedLookupVolts(in) ==
    {FixedFromVolts(v) : v \in LookupVolts(in) \ Specials}
        \cup {FixedFromVolts(Volts(2)) - 1, FixedFromVolts(Volts(2)) + 1}
        \cup {I32_MIN, I32_MAX}

\* FixedCurve::voltage_to_soc(&self, voltage: Fixed)
FixedVoltageToSoc(v) ==
    /\ call' = Call("voltage_to_soc_fixed", v, FixedCurveVoltageToSoc(fcurve, v))
    /\ UNCHANGED <<input, curve, fcurve, config>>

Next ==
    \/ \E v \in LookupVolts(input) : VoltageToSoc(v)
    \/ \E v \in FixedLookupVolts(input) : FixedVoltageToSoc(v)

Spec == Init /\ [][Next]_vars

(***************************************************************************)
(* The compensation functions, called on their own.                        *)
(***************************************************************************)
CompSocs ==
    {FixedFromInt(0), FixedFromRatio(75, 2), FixedFromInt(50),
     FixedFromInt(100), FixedFromInt(-10)}
CompTemps ==
    {FixedFromInt(-1000), FixedFromInt(-40), FixedFromInt(0), FixedFromInt(24),
     FixedFromInt(25), FixedFromInt(26), FixedFromInt(60), FixedFromInt(1000)}
CompNominals ==
    {FixedFromInt(25), FixedFromInt(0), FixedFromInt(-20), FixedFromInt(-32000)}
CompCoeffs ==
    {FixedFromRatio(5, 1000), FixedFromRatio(1, 10), FIXED_ZERO, 1,
     FixedFromRatio(-1, 100), FixedFromInt(40)}

CompInputs ==
    [fn : {"compensate_temperature_fixed"},
     soc : CompSocs, temperature : CompTemps, nominal_temp : CompNominals,
     coefficient : CompCoeffs]

AgingSocs ==
    {FixedFromInt(0), 1, FixedFromRatio(75, 2), FixedFromInt(50),
     FixedFromInt(100), FixedFromInt(-10)}
AgingYears ==
    {FixedFromInt(0), FixedFromRatio(1, 2), FixedFromInt(1), FixedFromInt(5),
     FixedFromInt(30), FixedFromInt(200), FixedFromInt(-1), -1}
AgingFactors ==
    {FixedFromRatio(2, 100), FIXED_ZERO, FixedFromRatio(1, 10),
     FixedFromInt(1), FixedFromInt(200), FixedFromRatio(-2, 100)}
AgingInputs ==
    [fn : {"compensate_aging_fixed"},
     soc : AgingSocs, age_years : AgingYears, aging_factor : AgingFactors]

\* f32 arguments: on and off the 16.16 grid, outside its range, non-finite.
FloatSocs ==
    {OnGrid(FixedFromInt(50)), OnGrid(FixedFromInt(-10)),
     OffGrid(FixedFromInt(50) * FSub + 1), Big(40000), NaN, Inf}
FloatTemps ==
    {OnGrid(FixedFromInt(-40)), OnGrid(FixedFromInt(0)),
     OnGrid(FixedFromInt(25)), OnGrid(FixedFromInt(60)),
     OffGrid(FixedFromInt(25) * FSub + 1), Big(-40000), NaN, NegInf}
FloatNominals ==
    {OnGrid(FixedFromInt(25)), OnGrid(FixedFromInt(0)),
     OffGrid(FixedFromInt(25) * FSub + 1), NaN}
FloatCoeffs ==
    {OnGrid(FixedFromRatio(5, 1000)), OnGrid(FIXED_ZERO),
     OnGrid(FixedFromRatio(-1, 100)), OffGrid(328 * FSub + 1), Inf}
FloatTempInputs ==
    [fn : {"compensate_temperature"},
     soc : FloatSocs, temperature : FloatTemps, nominal_temp : FloatNominals,
     coefficient : FloatCoeffs]

FloatYears ==
    {OnGrid(FixedFromInt(0)), OnGrid(FixedFromInt(5)),
     OnGrid(FixedFromInt(-1)), OffGrid(FixedFromInt(5) * FSub + 1),
     Big(40000), Big(-40000), NaN, NegInf}
FloatFactors ==
    {OnGrid(FixedFromRatio(2, 100)), OnGrid(FIXED_ZERO),
     OnGrid(FixedFromRatio(-2, 100)), OnGrid(FixedFromInt(200)), Inf}
FloatAgingInputs ==
    [fn : {"compensate_aging"},
     soc : FloatSocs, age_years : FloatYears, aging_factor : FloatFactors]

\* The arguments are drawn once; no curve is involved.
InitComp ==
    /\ input \in CompInputs \cup AgingInputs \cup FloatTempInputs
                    \cup FloatAgingInputs
    /\ curve = CurveNew(<<>>)
    /\ fcurve = FixedCurveNew(<<>>)
    /\ config = EstimatorConfigDefault
    /\ call = Call("new", input, NoResult)

CompensateTemperatureFixed ==
    /\ input.fn = "compensate_temperature_fixed"
    /\ call' = Call("compensate_temperature_fixed", input,
                    compensate_temperature_fixed(input.soc, input.temperature,
                                                 input.nominal_temp,
                                                 input.coefficient))
    /\ UNCHANGED <<input, curve, fcurve, config>>

CompensateAgingFixed ==
    /\ input.fn = "compensate_aging_fixed"
    /\ call' = Call("compensate_aging_fixed", input,
                    compensate_aging_fixed(input.soc, input.age_years,
                                           input.aging_factor))
    /\ UNCHANGED <<input, curve, fcurve, config>>

CompensateTemperature ==
    /\ input.fn = "compensate_temperature"
    /\ call' = Call("compensate_temperature", input,
                    compensate_temperature(input.soc, input.temperature,
                                           input.nominal_temp,
                                           input.coefficient))
    /\ UNCHANGED <<input, curve, fcurve, config>>

CompensateAging ==
    /\ input.fn = "compensate_aging"
    /\ call' = Call("compensate_aging", input,
                    compensate_aging(input.soc, input.age_years,
                                     input.aging_factor))
    /\ UNCHANGED <<input, curve, fcurve, config>>

NextComp ==
    \/ CompensateTemperatureFixed
    \/ CompensateAgingFixed
    \/ CompensateTemperature
    \/ CompensateAging

SpecComp == InitComp /\ [][NextComp]_vars

(***************************************************************************)
(* The estimator: configuration operations and estimates on one curve.     *)
(***************************************************************************)
\* default_curves::LIPO
LIPO ==
    <<<<Volts(3200), Percent(0)>>, <<Volts(3300), Percent(50)>>,
      <<Volts(3400), Percent(100)>>, <<Volts(3500), Percent(200)>>,
      <<Volts(3600), Percent(300)>>, <<Volts(3700), Percent(500)>>,
      <<Volts(3800), Percent(700)>>, <<Volts(3900), Percent(850)>>,
      <<Volts(4000), Percent(950)>>, <<Volts(4200), Percent(1000)>>>>

\* Custom curves: a single point, and two points in descending order.
SinglePointCurve == <<<<Volts(3700), Percent(500)>>>>
DescendingCurve ==
    <<<<Volts(4000), Percent(1000)>>, <<Volts(3000), Percent(0)>>>>
EstInputs == {LIPO, SinglePointCurve, DescendingCurve}

EstVolts == {Volts(3000), Volts(3450), Volts(4300)}
EstFloatVolts == EstVolts \cup {NaN, Volts(40000000)}
EstFixedVolts == {FixedFromVolts(v) : v \in EstVolts}
EstTemps ==
    {I32_MIN, FixedFromInt(-40), FixedFromInt(60)}
EstFloatTemps ==
    {OnGrid(FixedFromInt(-40)), OnGrid(FixedFromInt(60)), Big(40000), NaN}
EstNominals == {FixedFromInt(25), FixedFromInt(-32000)}
EstCoeffs == {FixedFromRatio(5, 1000)}
EstYears == {FixedFromInt(5), FixedFromInt(200)}
EstFactors == {FixedFromRatio(2, 100), FixedFromInt(200)}

InitEst ==
    /\ input \in EstInputs
    /\ curve = CurveNew(ToCurvePoints(input))
    /\ fcurve = FixedCurveFromF32Slice(input)
    /\ config = EstimatorConfigDefault
    /\ call = Call("new", input, NoResult)

\* SocEstimator::enable_temperature_compensation
EnableTemperatureCompensation(nominal_temp, coefficient) ==
    /\ config' = with_temperature_coefficient(
                     with_nominal_temperature(
                         with_temperature_compensation(config), nominal_temp),
                     coefficient)
    /\ call' = Call("enable_temperature_compensation",
                    <<nominal_temp, coefficient>>, NoResult)
    /\ UNCHANGED <<input, curve, fcurve>>

\* SocEstimator::enable_aging_compensation
EnableAgingCompensation(age_years, aging_factor) ==
    /\ config' = with_aging_factor(
                     with_age_years(with_aging_compensation(config), age_years),
                     aging_factor)
    /\ call' = Call("enable_aging_compensation",
                    <<age_years, aging_factor>>, NoResult)
    /\ UNCHANGED <<input, curve, fcurve>>

\* Configurations handed to update_config: a negative coefficient with the
\* temperature flag set, and an age with the aging flag clear.
EstConfigs ==
    {with_temperature_coefficient(
         with_temperature_compensation(EstimatorConfigDefault),
         FixedFromRatio(-1, 100)),
     with_age_years(EstimatorConfigDefault, FixedFromInt(5))}

\* SocEstimator::update_config
UpdateConfig(cfg) ==
    /\ config' = cfg
    /\ call' = Call("update_config", cfg, NoResult)
    /\ UNCHANGED <<input, curve, fcurve>>

\* Variant of disable_all_compensation that clears the flags and keeps the
\* parameters.
disable_all_compensation_FlagsOnly(cfg) == [cfg EXCEPT !.flags = 0]

\* The configuration disable_all_compensation stores in place of cfg.
disable_all_compensation(cfg) == EstimatorConfigDefault

\* SocEstimator::disable_all_compensation; the call records the
\* configuration it replaced.
DisableAllCompensation ==
    /\ config' = disable_all_compensation(config)
    /\ call' = Call("disable_all_compensation", config, NoResult)
    /\ UNCHANGED <<input, curve, fcurve>>

EstimateSoc(v) ==
    /\ call' = Call("estimate_soc", [voltage |-> v], estimate_soc(curve, v))
    /\ UNCHANGED <<input, curve, fcurve, config>>

EstimateSocFixed(v) ==
    /\ call' = Call("estimate_soc_fixed", [voltage |-> v],
                    estimate_soc_fixed(curve, v))
    /\ UNCHANGED <<input, curve, fcurve, config>>

EstimateSocWithTempFixed(v, t) ==
    /\ call' = Call("estimate_soc_with_temp_fixed",
                    [voltage |-> v, temperature |-> t],
                    estimate_soc_with_temp_fixed(curve, v, t))
    /\ UNCHANGED <<input, curve, fcurve, config>>

EstimateSocWithTemp(v, t) ==
    /\ call' = Call("estimate_soc_with_temp",
                    [voltage |-> v, temperature |-> t],
                    estimate_soc_with_temp(curve, v, t))
    /\ UNCHANGED <<input, curve, fcurve, config>>

EstimateSocCompensatedFixed(v, t) ==
    /\ call' = Call("estimate_soc_compensated_fixed",
                    [voltage |-> v, temperature |-> t],
                    estimate_soc_compensated_fixed(curve, config, v, t))
    /\ UNCHANGED <<input, curve, fcurve, config>>

EstimateSocCompensated(v, t) ==
    /\ call' = Call("estimate_soc_compensated",
                    [voltage |-> v, temperature |-> t],
                    estimate_soc_compensated(curve, config, v, t))
    /\ UNCHANGED <<input, curve, fcurve, config>>

NextEst ==
    \/ \E n \in EstNominals, c \in EstCoeffs :
          EnableTemperatureCompensation(n, c)
    \/ \E y \in EstYears, f \in EstFactors : EnableAgingCompensation(y, f)
    \/ \E cfg \in EstConfigs : UpdateConfig(cfg)
    \/ DisableAllCompensation
    \/ \E v \in EstFloatVolts : EstimateSoc(v)
    \/ \E v \in EstFixedVolts : EstimateSocFixed(v)
    \/ \E v \in EstFixedVolts, t \in EstTemps : EstimateSocWithTempFixed(v, t)
    \/ \E v \in EstFloatVolts, t \in EstFloatTemps : EstimateSocWithTemp(v, t)
    \/ \E v \in EstFixedVolts, t \in EstTemps :
          EstimateSocCompensatedFixed(v, t)
    \/ \E v \in EstFloatVolts, t \in EstFloatTemps :
          EstimateSocCompensated(v, t)

SpecEst == InitEst /\ [][NextEst]_vars

(***************************************************************************)
(* The float and the fixed lookup side by side: the built-in curves swept  *)
(* in 0.01 V steps, and every small curve in non-decreasing voltage order. *)
(***************************************************************************)
\* default_curves::LIFEPO4
LIFEPO4 ==
    <<<<Volts(2500), Percent(0)>>, <<Volts(2800), Percent(150)>>,
      <<Volts(3000), Percent(350)>>, <<Volts(3100), Percent(450)>>,
      <<Volts(3200), Percent(550)>>, <<Volts(3300), Percent(650)>>,
      <<Volts(3400), Percent(750)>>, <<Volts(3500), Percent(850)>>,
      <<Volts(3600), Percent(950)>>, <<Volts(3650), Percent(1000)>>>>

\* default_curves::LIION
LIION ==
    <<<<Volts(2500), Percent(0)>>, <<Volts(3000), Percent(300)>>,
      <<Volts(3300), Percent(500)>>, <<Volts(3500), Percent(650)>>,
      <<Volts(3600), Percent(700)>>, <<Volts(3700), Percent(750)>>,
      <<Volts(3800), Percent(800)>>, <<Volts(3900), Percent(850)>>,
      <<Volts(4000), Percent(900)>>, <<Volts(4100), Percent(950)>>,
      <<Volts(4200), Percent(1000)>>>>

\* default_curves::LIPO410_FULL340_CUTOFF
LIPO410_FULL340_CUTOFF ==
    <<<<Volts(3400), Percent(0)>>, <<Volts(3480), Percent(50)>>,
      <<Volts(3530), Percent(100)>>, <<Volts(3620), Percent(200)>>,
      <<Volts(3680), Percent(300)>>, <<Volts(3730), Percent(400)>>,
      <<Volts(3770), Percent(500)>>, <<Volts(3810), Percent(600)>>,
      <<Volts(3850), Percent(700)>>, <<Volts(3900), Percent(800)>>,
      <<Volts(3970), Percent(900)>>, <<Volts(4030), Percent(950)>>,
      <<Volts(4100), Percent(1000)>>>>

BuiltinInputs == {LIPO, LIFEPO4, LIION, LIPO410_FULL340_CUTOFF}

\* Small curves: up to MaxLen + 1 points on three voltages and two SOCs, in
\* non-decreasing voltage order, equal neighbours included.
PairPoints ==
    {<<Volts(mv), Percent(t)>> : mv \in {3000, 3500, 4000}, t \in {0, 1000}}
PairInputs ==
    {in \in SeqsUpTo(PairPoints, MaxLen + 1) :
        /\ Len(in) >= 2
        /\ \A i \in 1 .. (Len(in) - 1) : in[i][1].n <= in[i + 1][1].n}
PairVolts ==
    {Volts(2900), Volts(3000), Volts(3250), Volts(3500), Volts(3750),
     Volts(4000), Volts(4100)}

\* The step of the sweep: 0.01 V, in millivolts.
SWEEP_STEP_MV == 10

\* The f32 a sweep arrives at for the grid voltage mv / 1000: the sum or
\* product that forms it is rounded, so it is the grid value or lies a hair
\* under it, and `(voltage * 1000.0) as i32` is then mv or mv - 1.
SweepF32(mv, below) == Finite(mv * VSub - (IF below THEN 1 ELSE 0))

\* Fixed::from_num of that f32: the f32 is within 2^-20 V of mv / 1000, so
\* the nearest 16.16 pattern is the one nearest mv / 1000 or a neighbour.
SweepFixed(mv, ulp) == FixedFromRatio(mv, 1000) + ulp

PairResult(f, x) == [float |-> f, fixed |-> x]

InitPair ==
    /\ input \in BuiltinInputs \cup PairInputs
    /\ curve = CurveNew(ToCurvePoints(input))
    /\ fcurve = FixedCurveFromF32Slice(input)
    /\ config = EstimatorConfigDefault
    /\ call = Call("new", input, NoResult)

\* One step of the sweep over a built-in curve, both lookups at the same
\* voltage: the first step is at the curve's minimum, the last at its maximum.
SweepStep ==
    /\ input \in BuiltinInputs
    /\ call.op \in {"new", "sweep"}
    /\ LET mv == IF call.op = "new" THEN curve.min_voltage_mv
                 ELSE call.arg.mv + SWEEP_STEP_MV
       IN  /\ mv <= curve.max_voltage_mv
           /\ \E below \in BOOLEAN, ulp \in {-1, 0, 1} :
                 call' = Call("sweep",
                     [mv |-> mv, voltage |-> SweepF32(mv, below),
                      fvoltage |-> SweepFixed(mv, ulp)],
                     PairResult(
                         CurveVoltageToSoc(curve, SweepF32(mv, below)),
                         FixedCurveVoltageToSoc(fcurve, SweepFixed(mv, ulp))))
    /\ UNCHANGED <<input, curve, fcurve, config>>

\* Both lookups of one voltage on a small curve.
BothLookups(v) ==
    /\ input \in PairInputs
    /\ call' = Call("both",
                    [voltage |-> v, fvoltage |-> FixedFromVolts(v)],
                    PairResult(CurveVoltageToSoc(curve, v),
                               FixedCurveVoltageToSoc(fcurve,
                                                      FixedFromVolts(v))))
    /\ UNCHANGED <<input, curve, fcurve, config>>

\* Voltages for estimates on the built-in curves: under, inside and over
\* every range in 25 mV steps, a value between two millivolts, and the
\* values that are not numbers of volts at all.
BuiltinVolts ==
    {Volts(2000 + 25 * k) : k \in 0 .. 100}
        \cup {Finite(3333 * VSub + 1), Volts(-1000), Volts(40000000)}
        \cup Specials

\* SocEstimator::new(chemistry).estimate_soc(voltage)
EstimateSocBuiltin(v) ==
    /\ input \in BuiltinInputs
    /\ call' = Call("estimate_soc", [voltage |-> v], estimate_soc(curve, v))
    /\ UNCHANGED <<input, curve, fcurve, config>>

NextPair ==
    \/ SweepStep
    \/ \E v \in PairVolts : BothLookups(v)
    \/ \E v \in BuiltinVolts : EstimateSocBuiltin(v)

SpecPair == InitPair /\ [][NextPair]_vars

(***************************************************************************)
(* CurvePoint::new on its own: every kind of f32 in both positions.        *)
(***************************************************************************)
PointArgVolts ==
    {NaN, Inf, NegInf, Finite(-1), Volts(-1), Volts(0), Finite(1),
     Volts(3700), Finite(3700 * VSub + 1), Volts(U16_MAX - 1),
     Finite(U16_MAX * VSub - 1), Volts(U16_MAX), Finite(U16_MAX * VSub + 1),
     Volts(U16_MAX + 465)}
PointArgSocs ==
    {NaN, Inf, NegInf, Finite(-1), Percent(-100), Percent(0), Finite(1),
     Percent(505), Finite(505 * SSub + 1), Percent(1000),
     Finite(1000 * SSub + 1), Percent(1500)}
PointArgs == {<<v, s>> : v \in PointArgVolts, s \in PointArgSocs}

InitPoint ==
    /\ input \in PointArgs
    /\ curve = CurveEmpty
    /\ fcurve = FixedCurveEmpty
    /\ config = EstimatorConfigDefault
    /\ call = Call("none", input, NoResult)

\* CurvePoint::new(voltage, soc)
NewCurvePoint ==
    /\ call' = Call("curve_point_new", [voltage |-> input[1], soc |-> input[2]],
                    CurvePointNew(input[1], input[2]))
    /\ UNCHANGED <<input, curve, fcurve, config>>

NextPoint == NewCurvePoint

SpecPoint == InitPoint /\ [][NextPoint]_vars

(***************************************************************************)
(* Vocabulary of the properties.                                           *)
(***************************************************************************)
Looked == called = "voltage_to_soc"
N == curve.len
P(i) == curve.points[i]
Mv == CastI32(voltage)

\* The stored points are in non-decreasing / strictly increasing voltage order.
NonDecreasing == \A i \in 1 .. (N - 1) : P(i - 1).voltage_mv <= P(i).voltage_mv
Increasing == \A i \in 1 .. (N - 1) : P(i - 1).voltage_mv < P(i).voltage_mv
SocNonDecreasing == \A i \in 1 .. (N - 1) : P(i - 1).soc_tenth <= P(i).soc_tenth

\* The result is Ok with exactly t tenths of a percent.
IsOkTenth(r, t) == r.tag = "Ok" /\ r.num = t * r.den

C3_HighClampLastPoint ==
    (Looked /\ N >= 2 /\ NonDecreasing /\ Mv >= P(N - 1).voltage_mv)
        => IsOkTenth(result, P(N - 1).soc_tenth)

\* The first stored point that carries the voltage of point i.
FirstWithVoltageOf(i) ==
    CHOOSE k \in 0 .. i :
        /\ P(k).voltage_mv = P(i).voltage_mv
        /\ \A j \in 0 .. i : P(j).voltage_mv = P(i).voltage_mv => k <= j

BracketOf(mv) ==
    CHOOSE i \in 1 .. (N - 1) :
        P(i - 1).voltage_mv <= mv /\ mv <= P(i).voltage_mv

\* result = prev.soc + (mv - prev.v) / (curr.v - prev.v) * (curr.soc - prev.soc)
\* for the segment [i-1, i], in tenths of a percent.
IsLinearOn(r, i, mv) ==
    /\ r.tag = "Ok"
    /\ r.num * (P(i).voltage_mv - P(i - 1).voltage_mv)
         = r.den * (P(i - 1).soc_tenth * (P(i).voltage_mv - P(i - 1).voltage_mv)
                    + (mv - P(i - 1).voltage_mv)
                      * (P(i).soc_tenth - P(i - 1).soc_tenth))

\* The documented examples: 50.0 at 3.5 V and 25.0 at 3.25 V on
\* (3.0 V, 0 %)-(4.0 V, 100 %); 25.0 at 3.45 V on the three-point LiPo curve.
ExamplesHold ==
    /\ (input = TwoPointExample /\ voltage = Volts(3500))
          => IsOkTenth(result, 500)
    /\ (input = TwoPointExample /\ voltage = Volts(3250))
          => IsOkTenth(result, 250)
    /\ (input = LiPoExample /\ voltage = Volts(3450))
          => IsOkTenth(result, 250)

\* C5: on a curve of at least 2 points in strictly increasing voltage order,
\* a voltage strictly between the curve's min and max voltage yields Ok with
\* the linear interpolation between the adjacent points that bracket it.
C5_LinearInterpolation ==
    Looked =>
        /\ (N >= 2 /\ Increasing
            /\ Mv > P(0).voltage_mv /\ Mv < P(N - 1).voltage_mv)
              => IsLinearOn(result, BracketOf(Mv), Mv)
        /\ ExamplesHold

C5_Witness ==
    /\ Looked /\ N >= 3 /\ Increasing
    /\ Mv > P(1).voltage_mv /\ Mv < P(2).voltage_mv
    /\ P(2).soc_tenth > P(1).soc_tenth
    /\ result.tag = "Ok"
    /\ result.num > P(1).soc_tenth * result.den
    /\ result.num < P(2).soc_tenth * result.den

\* C7: on a curve of at least 2 points in non-decreasing voltage order no
\* lookup falls through the segment search to the final Err(NumericalError).
C7_SortedNeverFallsThrough ==
    (Looked /\ N >= 2 /\ NonDecreasing) => result.site # "no_segment"

C7_Witness ==
    /\ Looked /\ N >= 3 /\ NonDecreasing
    /\ Mv = P(1).voltage_mv
    /\ P(0).voltage_mv < Mv /\ Mv < P(N - 1).voltage_mv
    /\ P(1).voltage_mv = P(2).voltage_mv
    /\ result.site = "segment"

\* Order of f32 values (false when either side is NaN).
FloatLeq(a, b) ==
    /\ a.kind # "nan" /\ b.kind # "nan"
    /\ \/ a.kind = "neginf"
       \/ b.kind = "inf"
       \/ (a.kind = "finite" /\ b.kind = "finite" /\ a.n <= b.n)

\* Order of two Ok results.
SocLeq(r1, r2) == r1.num * r2.den <= r2.num * r1.den

\* C6: on a curve of at least 2 points in non-decreasing voltage order whose
\* SOC samples do not decrease with the index, two lookups at voltages
\* v1 <= v2 are both Ok and the first result is not above the second.
C6_Monotonic ==
    [][(Looked /\ Looked' /\ N >= 2 /\ NonDecreasing /\ SocNonDecreasing
        /\ FloatLeq(voltage, voltage'))
          => (result.tag = "Ok" /\ result'.tag = "Ok"
              /\ SocLeq(result, result'))]_vars

C6_Witness ==
    /\ Looked /\ N >= 3 /\ NonDecreasing /\ SocNonDecreasing
    /\ P(0).soc_tenth < P(1).soc_tenth /\ P(1).soc_tenth < P(2).soc_tenth
    /\ result.site = "segment"
    /\ result.num > P(1).soc_tenth * result.den
    /\ result.num < P(2).soc_tenth * result.den

\* The stored fixed points are in non-decreasing voltage order.
FixedLooked == called = "voltage_to_soc_fixed"
FixedNonDecreasing ==
    \A i \in 1 .. (fcurve.len - 1) :
        fcurve.points[i - 1].voltage <= fcurve.points[i].voltage

\* A stored segment [i-1, i] of the curve brackets the millivolt value mv
\* and is the first one to do so.
FirstBracket(i, mv) ==
    /\ P(i - 1).voltage_mv <= mv /\ mv <= P(i).voltage_mv
    /\ \A j \in 1 .. (i - 1) :
          ~(P(j - 1).voltage_mv <= mv /\ mv <= P(j).voltage_mv)

\* C8: no lookup divides by a zero voltage span.  In Curve::voltage_to_soc a
\* lookup that gets past the boundary checks and whose first bracketing
\* segment has equal endpoint voltages ends in Err(NumericalError); in
\* FixedCurve::voltage_to_soc on a curve in non-decreasing voltage order the
\* segment the partition-point search selects has curr.voltage > prev.voltage
\* and the lookup never reaches the division with a zero divisor.
C8_NoZeroSpanDivision ==
    /\ (Looked /\ N >= 2
        /\ Mv < curve.max_voltage_mv /\ Mv > curve.min_voltage_mv)
          => \A i \in 1 .. (N - 1) :
                (FirstBracket(i, Mv) /\ P(i).voltage_mv = P(i - 1).voltage_mv)
                    => (result.tag = "NumericalError" /\ result.den # 0)
    /\ (FixedLooked /\ FixedNonDecreasing)
          => /\ fresult.site # "divide_by_zero"
             /\ fresult.site = "segment"
                   => fcurve.points[fresult.idx].voltage
                        > fcurve.points[fresult.idx - 1].voltage

C8_Witness ==
    /\ Looked /\ N >= 2
    /\ Mv < curve.max_voltage_mv /\ Mv > curve.min_voltage_mv
    /\ \E i \in 1 .. (N - 1) :
          FirstBracket(i, Mv) /\ P(i).voltage_mv = P(i - 1).voltage_mv
    /\ result.tag = "NumericalError"

\* Number of points Curve::new keeps of the input slice.
Kept == Min2(Len(input), MAX_CURVE_POINTS)

\* C9: Curve::new stores exactly the first min(k, 32) of the k points given;
\* the slots beyond stay at their default, the voltage range is the range of
\* the stored points alone, and every lookup answers as on the curve built
\* from the first 32 points only.
C9_CapacityTruncation ==
    LET quantized == ToCurvePoints(input)
        keptVolts == {quantized[i].voltage_mv : i \in 1 .. Kept}
        range == voltage_range(curve)
    IN  /\ curve.len = Kept /\ curve.len <= MAX_CURVE_POINTS
        /\ \A i \in 0 .. (Kept - 1) : curve.points[i] = quantized[i + 1]
        /\ \A i \in Kept .. (MAX_CURVE_POINTS - 1) :
              curve.points[i] = CurvePoint(0, 0)
        /\ Kept = 0 => range = <<Volts(0), Volts(0)>>
        /\ Kept > 0 =>
              \E lo \in keptVolts, hi \in keptVolts :
                  /\ \A v \in keptVolts : lo <= v /\ v <= hi
                  /\ range = <<Volts(lo), Volts(hi)>>
        /\ Looked =>
              result = CurveVoltageToSoc(CurveNew(SubSeq(quantized, 1, Kept)),
                                         voltage)

C9_Witness ==
    /\ Looked
    /\ Len(input) > MAX_CURVE_POINTS
    /\ input[MAX_CURVE_POINTS + 1][1] = Volts(99)
    /\ curve.max_voltage_mv < 99
    /\ voltage = Volts(99)
    /\ result.site = "max"

(***************************************************************************)
(* Compensation properties.                                                *)
(***************************************************************************)
TempCalled == called = "compensate_temperature_fixed"

\* C10 (as claimed): whatever the sign of the coefficient, when no step
\* overflows the change applied by compensate_temperature_fixed lies in
\* [-0.30, +0.05], and for soc >= 0 the result lies between 0.70 * soc and
\* 1.05 * soc, up to one unit in the last place.
C10_TemperatureBound ==
    (TempCalled /\ ~result.overflow) =>
        /\ result.change >= COLD_LIMIT
        /\ result.change <= WARM_CAP
        /\ call.arg.soc >= 0 =>
              /\ result.value >= FixedMul(call.arg.soc, FixedFromRatio(70, 100)) - 1
              /\ result.value <= FixedMul(call.arg.soc, FixedFromRatio(105, 100)) + 1

\* C11 (as claimed): with the temperature equal to the nominal temperature,
\* compensate_temperature_fixed and compensate_temperature return exactly
\* the soc they were given, whatever soc, temperature and coefficient.
C11_TemperatureIdentity ==
    /\ (TempCalled /\ input.temperature = input.nominal_temp)
          => (~result.overflow /\ result.value = input.soc)
    /\ (called = "compensate_temperature"
            /\ input.temperature = input.nominal_temp)
          => (~result.overflow /\ result.value = input.soc)

AgingCalled == called = "compensate_aging_fixed"
FloatTempCalled == called = "compensate_temperature"
FloatAgingCalled == called = "compensate_aging"

\* C12 (as claimed): for soc in [0, 100] and non-negative age_years and
\* aging_factor, compensate_aging_fixed returns soc * (1 - c) with c the
\* product age_years * aging_factor clamped to [0, 0.5], so that the result
\* lies between 0.5 * soc and soc.
C12_AgingBound ==
    (/\ AgingCalled
     /\ input.soc >= 0 /\ input.soc <= FixedFromInt(100)
     /\ input.age_years >= 0 /\ input.aging_factor >= 0)
        => /\ ~result.overflow
           /\ result.change >= FIXED_ZERO /\ result.change <= MAX_AGING
           /\ result.value = FixedMul(input.soc, FIXED_ONE - result.change)
           /\ result.value >= FixedMul(input.soc, MAX_AGING)
           /\ result.value <= input.soc

\* C13: a negative age_years or a negative aging_factor, whatever the other
\* argument, makes compensate_aging_fixed and compensate_aging return the
\* soc they were given, unchanged.
C13_NegativeAgingUnchanged ==
    /\ (AgingCalled /\ (input.age_years < 0 \/ input.aging_factor < 0))
          => (result.value = input.soc /\ ~result.overflow)
    /\ (FloatAgingCalled
            /\ (IsNegative(input.age_years) \/ IsNegative(input.aging_factor)))
          => (result.value = input.soc /\ ~result.overflow)

C13_Witness ==
    /\ FloatAgingCalled
    /\ input.soc = OffGrid(FixedFromInt(50) * FSub + 1)
    /\ input.age_years = OnGrid(FixedFromInt(5))
    /\ input.aging_factor = OnGrid(FixedFromRatio(-2, 100))
    /\ result.value = input.soc

\* C14: when any argument of compensate_temperature or compensate_aging is
\* NaN or infinite, the function returns its soc argument as it is (a
\* non-finite soc included) and applies no correction.
C14_FailSoft ==
    /\ (FloatTempCalled
            /\ (\/ ~is_finite(input.soc) \/ ~is_finite(input.temperature)
                \/ ~is_finite(input.nominal_temp)
                \/ ~is_finite(input.coefficient)))
          => (result.value = input.soc /\ ~result.overflow)
    /\ (FloatAgingCalled
            /\ (\/ ~is_finite(input.soc) \/ ~is_finite(input.age_years)
                \/ ~is_finite(input.aging_factor)))
          => (result.value = input.soc /\ ~result.overflow)

C14_Witness ==
    /\ FloatTempCalled
    /\ input.soc = NaN
    /\ input.temperature = OnGrid(FixedFromInt(0))
    /\ input.nominal_temp = OnGrid(FixedFromInt(25))
    /\ input.coefficient = OnGrid(FixedFromRatio(5, 1000))
    /\ result.value = NaN

\* C15 (as claimed): no compensation call aborts or overflows: for finite
\* f32 arguments of any magnitude the float functions return an SOC, and
\* for any 16.16 arguments the fixed functions do, with no overflow in a
\* conversion, a subtraction or a multiplication.
C15_CompensationNeverFails ==
    /\ (TempCalled \/ AgingCalled) => ~result.overflow
    /\ (FloatTempCalled
            /\ is_finite(input.soc) /\ is_finite(input.temperature)
            /\ is_finite(input.nominal_temp) /\ is_finite(input.coefficient))
          => (~result.overflow /\ is_finite(result.value))
    /\ (FloatAgingCalled
            /\ is_finite(input.soc) /\ is_finite(input.age_years)
            /\ is_finite(input.aging_factor))
          => (~result.overflow /\ is_finite(result.value))

(***************************************************************************)
(* Estimator properties.                                                   *)
(***************************************************************************)
ClampedFixedOps ==
    {"estimate_soc_compensated_fixed", "estimate_soc_with_temp_fixed"}
EstimateOps ==
    {"estimate_soc", "estimate_soc_fixed", "estimate_soc_with_temp",
     "estimate_soc_with_temp_fixed", "estimate_soc_compensated",
     "estimate_soc_compensated_fixed"}

\* The lookup the last estimate started from succeeded.
FixedLookupOk == CurveVoltageToSocFixed(curve, call.arg.voltage).tag = "Ok"

\* C16 (as claimed): under every configuration the config operations can
\* produce, for every voltage and temperature, when the curve lookup
\* succeeds estimate_soc_compensated_fixed and estimate_soc_with_temp_fixed
\* return Ok(soc) with 0 <= soc <= 100.
C16_OuterClamp ==
    (called \in ClampedFixedOps /\ FixedLookupOk)
        => /\ result.fault = "none"
           /\ result.tag = "Ok"
           /\ result.value >= FIXED_ZERO /\ result.value <= SOC_MAX

\* The outcome of the curve lookup the last estimate is built on: the float
\* entry points look the f32 voltage up, the fixed ones the Fixed voltage,
\* and estimate_soc_compensated the voltage it converted to Fixed.
LookupTag ==
    CASE called \in {"estimate_soc", "estimate_soc_with_temp"} ->
            CurveVoltageToSoc(curve, call.arg.voltage).tag
      [] called = "estimate_soc_compensated" ->
            CurveVoltageToSocFixed(
                curve, FixedFromVoltage(call.arg.voltage).bits).tag
      [] OTHER -> CurveVoltageToSocFixed(curve, call.arg.voltage).tag

\* C17 (as claimed): when the curve lookup fails, every estimate function
\* returns the Err tag of the lookup, for every temperature and under every
\* configuration: never an Ok value, and nothing else happens instead.
C17_LookupFailurePropagates ==
    (called \in EstimateOps /\ LookupTag # "Ok")
        => (result.tag = LookupTag /\ result.fault = "none")

\* C18 (as claimed): for every f32 voltage and temperature, NaN, the
\* infinities and magnitudes of 32768 and more included,
\* estimate_soc_with_temp and estimate_soc_compensated return a Result: an Ok
\* value or an Error tag, never an abort.
C18_NoPanicInEstimates ==
    called \in {"estimate_soc_with_temp", "estimate_soc_compensated"}
        => result.fault = "none"

(***************************************************************************)
(* Agreement of the two lookups.                                           *)
(***************************************************************************)
\* Distance of the two SOCs of a pair of Ok results, in 16.16 units: the
\* float SOC num/den tenths is put on the 16.16 grid (within half a unit).
SocDistance(r) == Abs(r.fixed.bits - FixedFromSoc(r.float.num, r.float.den))

\* 0.5 percentage points in 16.16 units.
HALF_POINT == FixedFromRatio(5, 10)

\* C19: on each of the four built-in curves, at every voltage of the sweep
\* from the curve's minimum to its maximum in 0.01 V steps, the float lookup
\* and the fixed lookup both succeed and their SOCs differ by at most 0.5
\* percentage points.
C19_FixedFloatAgreement ==
    called = "sweep"
        => /\ result.float.tag = "Ok"
           /\ result.fixed.tag = "Ok"
           /\ SocDistance(result) < HALF_POINT

\* C19 witness: a sweep step inside a segment, where both lookups
\* interpolate and the float one sees a millivolt less than the fixed one.
C19_Witness ==
    /\ called = "sweep"
    /\ call.arg.voltage.n < call.arg.mv * VSub
    /\ result.float.site = "segment"
    /\ result.fixed.site = "segment"
    /\ SocDistance(result) > 0
    /\ SocDistance(result) < HALF_POINT

\* The two lookups have the same outcome: the same error, or Ok SOCs that
\* are one representation of the same value (within a whole percent here).
SameOutcome(r) ==
    /\ r.float.tag = r.fixed.tag
    /\ r.float.tag = "Ok" => SocDistance(r) < FIXED_ONE

\* C20 (as claimed): on every curve of at least 2 points in non-decreasing
\* voltage order, equal neighbours allowed, and at every voltage, the linear
\* scan of Curve::voltage_to_soc and the binary search of
\* FixedCurve::voltage_to_soc end in the same outcome.
C20_ScanAndSearchAgree ==
    called = "both" => SameOutcome(result)

(***************************************************************************)
(* CurvePoint::new                                                         *)
(***************************************************************************)
\* What the sanitising of one argument must give: x counted in 1/sub of the
\* stored unit, top the largest stored value.
Sanitized(x, sub, top) ==
    IF x.kind # "finite" \/ x.n < 0 THEN 0
    ELSE IF x.n > top * sub THEN top
    ELSE x.n \div sub

MinStored == CHOOSE m \in {P(i).voltage_mv : i \in 0 .. (N - 1)} :
                 \A i \in 0 .. (N - 1) : m <= P(i).voltage_mv
MaxStored == CHOOSE m \in {P(i).voltage_mv : i \in 0 .. (N - 1)} :
                 \A i \in 0 .. (N - 1) : m >= P(i).voltage_mv
FirstCarrying(mv) ==
    CHOOSE k \in 0 .. (N - 1) :
        /\ P(k).voltage_mv = mv
        /\ \A j \in 0 .. (N - 1) : P(j).voltage_mv = mv => k <= j

C23_BuiltinCurvesTotal ==
    (called = "estimate_soc" /\ input \in BuiltinInputs)
        => /\ result.tag = "Ok"
           /\ result.value.den > 0
           /\ result.value.num >= 0
           /\ result.value.num <= 1000 * result.value.den

\* C23 witness: an estimate inside a segment of a built-in curve, strictly
\* between 0 and 100.
C23_Witness ==
    /\ called = "estimate_soc" /\ input \in BuiltinInputs
    /\ result.tag = "Ok"
    /\ result.value.site = "segment"
    /\ result.value.num > 0
    /\ result.value.num < 1000 * result.value.den

(***************************************************************************)
(* Composition of the compensations in the estimator.                      *)
(***************************************************************************)
\* The base SOC of the last fixed estimate, and the two stages as the
\* configuration gates them.
BaseSoc == CurveVoltageToSocFixed(curve, call.arg.voltage).value
TemperatureStage(soc) ==
    IF is_temperature_compensation_enabled(config)
    THEN compensate_temperature_fixed(soc, call.arg.temperature,
             config.nominal_temperature, config.temperature_coefficient)
    ELSE CompResult(soc, FIXED_ZERO, FALSE)
AgingStage(soc) ==
    IF is_aging_compensation_enabled(config)
    THEN compensate_aging_fixed(soc, config.age_years, config.aging_factor)
    ELSE CompResult(soc, FIXED_ZERO, FALSE)

\* C24: when the lookup succeeds estimate_soc_compensated_fixed returns
\* clamp(A(T(base)), 0, 100): T is compensate_temperature_fixed with the
\* configured nominal temperature and coefficient if the temperature flag is
\* set and the identity otherwise, A is compensate_aging_fixed with the
\* configured age and factor if the aging flag is set and the identity
\* otherwise, T is applied before A, and with both flags clear the result is
\* clamp(base, 0, 100) at every temperature.
C24_CompositionOrder ==
    (called = "estimate_soc_compensated_fixed" /\ FixedLookupOk)
        => /\ result.tag = "Ok"
           /\ result.value =
                 FixedClamp(AgingStage(TemperatureStage(BaseSoc).value).value,
                            FIXED_ZERO, SOC_MAX)
           /\ config.flags = 0
                 => result.value = FixedClamp(BaseSoc, FIXED_ZERO, SOC_MAX)

\* C24 witness: both flags set, nothing overflows, and each stage changes
\* the SOC it is given.
C24_Witness ==
    /\ called = "estimate_soc_compensated_fixed" /\ FixedLookupOk
    /\ is_temperature_compensation_enabled(config) /\ is_aging_compensation_enabled(config)
    /\ result.fault = "none"
    /\ TemperatureStage(BaseSoc).value # BaseSoc
    /\ AgingStage(TemperatureStage(BaseSoc).value).value
           # TemperatureStage(BaseSoc).value
    /\ result.value = AgingStage(TemperatureStage(BaseSoc).value).value

(***************************************************************************)
(* The configuration and what depends on it.                               *)
(***************************************************************************)
\* C25: whatever update_config, the enable operations and
\* disable_all_compensation have made of the configuration,
\* estimate_soc_with_temp_fixed(v, t) is
\* clamp(compensate_temperature_fixed(base, t, 25.0, 0.005), 0, 100), a value
\* that depends on the curve, v and t only.
C25_WithTempIgnoresConfig ==
    (called = "estimate_soc_with_temp_fixed" /\ FixedLookupOk)
        => /\ result.tag = "Ok"
           /\ result.value =
                 FixedClamp(
                     compensate_temperature_fixed(BaseSoc,
                         call.arg.temperature, FixedFromInt(25),
                         FixedFromRatio(5, 1000)).value,
                     FIXED_ZERO, SOC_MAX)

\* C25 witness: the temperature flag is set with another nominal temperature,
\* the configured estimate at the same voltage and temperature differs, and
\* estimate_soc_with_temp_fixed still returns the default compensation.
C25_Witness ==
    /\ called = "estimate_soc_with_temp_fixed" /\ FixedLookupOk
    /\ is_temperature_compensation_enabled(config)
    /\ config.nominal_temperature # FixedFromInt(25)
    /\ result.fault = "none"
    /\ result.value # BaseSoc
    /\ result.value #
           estimate_soc_compensated_fixed(curve, config, call.arg.voltage,
                                          call.arg.temperature).value
    /\ result.value =
           FixedClamp(
               compensate_temperature_fixed(BaseSoc, call.arg.temperature,
                   FixedFromInt(25), FixedFromRatio(5, 1000)).value,
               FIXED_ZERO, SOC_MAX)

\* C26: a step of enable_temperature_compensation(n, c) sets the temperature
\* flag, nominal_temperature = n and temperature_coefficient = c and leaves
\* the aging flag, age_years, aging_factor and the curve as they were; a step
\* of enable_aging_compensation(a, f) sets the aging flag, age_years = a and
\* aging_factor = f and leaves the temperature flag, nominal_temperature,
\* temperature_coefficient and the curve as they were; neither clears a flag.
C26_EnableFlagsIndependent ==
    [][/\ call'.op = "enable_temperature_compensation"
            => /\ is_temperature_compensation_enabled(config')
               /\ config'.nominal_temperature = call'.arg[1]
               /\ config'.temperature_coefficient = call'.arg[2]
               /\ is_aging_compensation_enabled(config')
                     = is_aging_compensation_enabled(config)
               /\ config'.age_years = config.age_years
               /\ config'.aging_factor = config.aging_factor
               /\ curve' = curve
       /\ call'.op = "enable_aging_compensation"
            => /\ is_aging_compensation_enabled(config')
               /\ config'.age_years = call'.arg[1]
               /\ config'.aging_factor = call'.arg[2]
               /\ is_temperature_compensation_enabled(config')
                     = is_temperature_compensation_enabled(config)
               /\ config'.nominal_temperature = config.nominal_temperature
               /\ config'.temperature_coefficient
                     = config.temperature_coefficient
               /\ curve' = curve]_vars

\* C26 witness: enable_aging_compensation has just run on a configuration
\* whose temperature flag was set with a nominal temperature of its own, and
\* both are still there.
C26_Witness ==
    /\ called = "enable_aging_compensation"
    /\ is_aging_compensation_enabled(config)
    /\ config.age_years = call.arg[1]
    /\ config.aging_factor = call.arg[2]
    /\ is_temperature_compensation_enabled(config)
    /\ config.nominal_temperature = FixedFromInt(-32000)

\* C27: a step of disable_all_compensation, from whatever configuration,
\* leaves both flags clear and the configuration of EstimatorConfig::default()
\* (nominal temperature 25, coefficient 0.005, age 0, aging factor 0.02); an
\* estimate_soc_compensated that follows it, with arguments that convert to
\* Fixed and a lookup that succeeds, returns clamp(base, 0, 100).
C27_DisableResetsAll ==
    [][/\ call'.op = "disable_all_compensation"
            => config' = [nominal_temperature |-> FixedFromInt(25),
                          temperature_coefficient |-> FixedFromRatio(5, 1000),
                          age_years |-> FIXED_ZERO,
                          aging_factor |-> FixedFromRatio(2, 100),
                          flags |-> 0]
       /\ (/\ call.op = "disable_all_compensation"
           /\ call'.op = "estimate_soc_compensated"
           /\ FixedFromVoltage(call'.arg.voltage).fault = "none"
           /\ FromNum(call'.arg.temperature).fault = "none"
           /\ CurveVoltageToSocFixed(curve,
                  FixedFromVoltage(call'.arg.voltage).bits).tag = "Ok")
            => /\ call'.result.tag = "Ok"
               /\ call'.result.fault = "none"
               /\ call'.result.value =
                     ToF32(FixedClamp(
                         CurveVoltageToSocFixed(curve,
                             FixedFromVoltage(call'.arg.voltage).bits).value,
                         FIXED_ZERO, SOC_MAX))]_vars

\* C27 witness: disable_all_compensation has just replaced a configuration
\* with both flags set and parameters of its own by the default one.
C27_Witness ==
    /\ called = "disable_all_compensation"
    /\ call.arg.flags = FLAG_TEMPERATURE + FLAG_AGING
    /\ call.arg.nominal_temperature = FixedFromInt(-32000)
    /\ call.arg.age_years = FixedFromInt(200)
    /\ call.arg.aging_factor = FixedFromInt(200)
    /\ config = EstimatorConfigDefault
    /\ config # call.arg

(***************************************************************************)
(* Direction of the temperature compensation.                              *)
(***************************************************************************)
\* C28 (as claimed): for every soc >= 0 and every coefficient >= 0,
\* compensate_temperature_fixed returns a value, at most soc when
\* temperature < nominal_temp, and at least soc and at most 1.05 * soc (to
\* the unit in the last place) when temperature >= nominal_temp.
C28_TemperatureDirection ==
    (TempCalled /\ input.soc >= FIXED_ZERO /\ input.coefficient >= FIXED_ZERO)
        => /\ ~result.overflow
           /\ input.temperature < input.nominal_temp
                 => result.value <= input.soc
           /\ input.temperature >= input.nominal_temp
                 => /\ result.value >= input.soc
                    /\ result.value
                          <= FixedMul(input.soc, FixedFromRatio(105, 100)) + 1

(***************************************************************************)
(* Curves stored in strictly decreasing voltage order.                     *)
(***************************************************************************)
Decreasing == \A i \in 1 .. (N - 1) : P(i - 1).voltage_mv > P(i).voltage_mv

\* The f32 voltage looked up lies strictly between lo and hi millivolts.
StrictlyBetween(lo, hi) ==
    /\ voltage.kind = "finite"
    /\ voltage.n > lo * VSub
    /\ voltage.n < hi * VSub

AllSameVoltage == \A i \in 0 .. (N - 1) : P(i).voltage_mv = P(0).voltage_mv

====
